---------------------------- MODULE Spec2Model ----------------------------
(***************************************************************************)
(* A model of the WebsiteAnalyzer: the rule-based scoring engine of        *)
(* analyzer_utils.py (fetch, ten predicates, penalties, score, report),    *)
(* the four generation tasks, and the Streamlit session of app.py.         *)
(*                                                                         *)
(* Text is modelled by TLA+ strings and searched character by character,   *)
(* as Python's `in`, str.lower, str.strip and re.search do.  Time is kept  *)
(* in whole milliseconds (load_time = 5200 is 5.2 s).  A parsed page       *)
(* (BeautifulSoup) is a record of the parts the code reads: the title      *)
(* element, the name attributes of the meta elements, the img elements     *)
(* (each the sequence of its src attribute, empty when it has none), and   *)
(* the text of the body; get_text() is the title's text followed by the    *)
(* body's.  A body ends in `fill` filler characters "~", kept as a count:  *)
(* a page text is the record [lit, fill] standing for lit followed by fill *)
(* times "~", and the text_ operators are Python's on that string.         *)
(***************************************************************************)
EXTENDS Integers, Sequences, FiniteSets, TLC

VARIABLES
    api_key_validated,  \* st.session_state.api_key_validated
    openai_api_key,     \* st.session_state.openai_api_key
    analysis_results,   \* st.session_state.analysis_results (NoResults is None)
    current_url,        \* st.session_state.current_url
    error,              \* the message of the last st.error, "" when none
    env,                \* what the outside world answers: the site, the text service, the template file
    analysis,           \* the outcome of the last call of analyze_website_comprehensive
    requests            \* the external calls issued by the last handler run, in order

vars == <<api_key_validated, openai_api_key, analysis_results, current_url,
          error, env, analysis, requests>>

-----------------------------------------------------------------------------
(* Python's str and list operations, as far as the code uses them. *)

Min(a, b) == IF a <= b THEN a ELSE b
Max(a, b) == IF a >= b THEN a ELSE b

\* s[i:i+1]
CharAt(s, i) == SubSeq(s, i, i)

\* needle in text
Contains(text, needle) ==
    \E i \in 1..(Len(text) - Len(needle) + 1) :
        SubSeq(text, i, i + Len(needle) - 1) = needle

\* s.startswith(prefix)
startswith(s, prefix) ==
    Len(s) >= Len(prefix) /\ SubSeq(s, 1, Len(prefix)) = prefix

UpperToLower ==
    "A" :> "a" @@ "B" :> "b" @@ "C" :> "c" @@ "D" :> "d" @@ "E" :> "e" @@
    "F" :> "f" @@ "G" :> "g" @@ "H" :> "h" @@ "I" :> "i" @@ "J" :> "j" @@
    "K" :> "k" @@ "L" :> "l" @@ "M" :> "m" @@ "N" :> "n" @@ "O" :> "o" @@
    "P" :> "p" @@ "Q" :> "q" @@ "R" :> "r" @@ "S" :> "s" @@ "T" :> "t" @@
    "U" :> "u" @@ "V" :> "v" @@ "W" :> "w" @@ "X" :> "x" @@ "Y" :> "y" @@
    "Z" :> "z"

UpperCase == DOMAIN UpperToLower

\* s.lower(), by halves so that the depth of the recursion stays small
RECURSIVE lower(_)
lower(s) ==
    IF Len(s) = 0 THEN ""
    ELSE IF Len(s) = 1 THEN (IF s \in UpperCase THEN UpperToLower[s] ELSE s)
    ELSE LET h == Len(s) \div 2
         IN  lower(SubSeq(s, 1, h)) \o lower(SubSeq(s, h + 1, Len(s)))

\* the characters str.strip() removes and \s matches
Whitespace == {" ", "\n", "\t", "\r"}

RECURSIVE lstrip(_)
lstrip(s) ==
    IF Len(s) > 0 /\ CharAt(s, 1) \in Whitespace
    THEN lstrip(SubSeq(s, 2, Len(s)))
    ELSE s

RECURSIVE rstrip(_)
rstrip(s) ==
    IF Len(s) > 0 /\ CharAt(s, Len(s)) \in Whitespace
    THEN rstrip(SubSeq(s, 1, Len(s) - 1))
    ELSE s

\* s.strip()
strip(s) == rstrip(lstrip(s))

Digits == {"0", "1", "2", "3", "4", "5", "6", "7", "8", "9"}

\* \d{n} matched at position i of text
DigitsAt(text, i, n) ==
    /\ i >= 1
    /\ i + n - 1 <= Len(text)
    /\ \A k \in i..(i + n - 1) : CharAt(text, k) \in Digits

\* one literal character matched at position i of text
LitAt(text, i, c) == i >= 1 /\ i <= Len(text) /\ CharAt(text, i) = c

\* "\n".join(lines)
RECURSIVE join(_, _)
join(sep, lines) ==
    IF Len(lines) = 0 THEN ""
    ELSE IF Len(lines) = 1 THEN lines[1]
    ELSE lines[1] \o sep \o join(sep, Tail(lines))

\* f"{x:.1f}" of a time of ms milliseconds: seconds rounded to one decimal
format_1f(ms) ==
    LET tenths == (ms + 50) \div 100
    IN  ToString(tenths \div 10) \o "." \o ToString(tenths % 10)

-----------------------------------------------------------------------------
(* Page texts: [lit, fill] is the string lit followed by fill times "~". *)

FillChar == "~"

\* the last k characters of s are all the filler character
EndsInFill(s, k) ==
    \A j \in (Len(s) - k + 1)..Len(s) : CharAt(s, j) = FillChar

\* s is a suffix of t
endswith(t, s) ==
    Len(t) >= Len(s) /\ SubSeq(t, Len(t) - Len(s) + 1, Len(t)) = s

\* len(text)
text_len(text) == Len(text.lit) + text.fill

\* text.lower()
text_lower(text) == [lit |-> lower(text.lit), fill |-> text.fill]

\* text.strip(): the filler character is no whitespace
text_strip(text) ==
    IF text.fill > 0
    THEN [lit |-> lstrip(text.lit), fill |-> text.fill]
    ELSE [lit |-> strip(text.lit), fill |-> 0]

\* needle in text: the needle lies in lit, or its last k characters are
\* filler and lie in the fill while the rest ends lit
text_contains(text, needle) ==
    \/ Contains(text.lit, needle)
    \/ \E k \in 1..Min(Len(needle), text.fill) :
          /\ EndsInFill(needle, k)
          /\ \/ k = Len(needle)
             \/ endswith(text.lit, SubSeq(needle, 1, Len(needle) - k))

\* text[:n]
text_prefix(text, n) ==
    IF Len(text.lit) >= n
    THEN [lit |-> SubSeq(text.lit, 1, n), fill |-> 0]
    ELSE [lit |-> text.lit, fill |-> Min(text.fill, n - Len(text.lit))]

-----------------------------------------------------------------------------
(* The parsed page. *)

\* soup.title: the title element, or None
has_title(soup) == soup.title.present

\* soup.title.string: the title's text; "" stands for None (an empty title)
title_string(soup) == soup.title.string

\* soup.get_text(): every text node of the page in document order
get_text(soup) ==
    [lit  |-> (IF has_title(soup) THEN title_string(soup) ELSE "") \o soup.body,
     fill |-> soup.fill]

\* a variant that takes any meta element for the viewport one
find_any_meta(soup) == Len(soup.metas) > 0

\* soup.find("meta", {"name": "viewport"})
find_viewport(soup) == \E i \in 1..Len(soup.metas) : soup.metas[i] = "viewport"

\* soup.find_all("img")
find_all_img(soup) == soup.imgs

\* img.get('src') is truthy: the attribute is there and not empty
img_src_truthy(img) == Len(img) > 0 /\ img[1] # ""

-----------------------------------------------------------------------------
(* FETCH & TIMING *)

\* The URL fetch_html hands to requests.get.
fetch_target(url) ==
    IF ~startswith(lower(url), "http") THEN "https://" \o url ELSE url

\* requests.get refuses a URL without an http:// or https:// scheme
\* (MissingSchema, InvalidSchema) before anything is sent.
requests_accepts(target) ==
    \/ startswith(lower(target), "http://")
    \/ startswith(lower(target), "https://")

\* fetch_html(url): the pair (soup, load_time), or the exception raised by
\* requests.get or response.raise_for_status.
\* a variant that leaves out response.raise_for_status()
fetch_html_unchecked_status(url, site) ==
    LET target == fetch_target(url)
        calls  == <<[call |-> "GET", to |-> target]>>
    IN  IF ~requests_accepts(target)
        THEN [ok |-> FALSE, calls |-> calls,
              exception |-> "Invalid URL '" \o target \o "': No scheme supplied."]
        ELSE IF site.status \in {"timeout", "connection error"}
        THEN [ok |-> FALSE, calls |-> calls, exception |-> site.status]
        ELSE [ok |-> TRUE, calls |-> calls, soup |-> site.soup,
              load_time |-> site.load_time]

\* `calls` lists the requests.get calls made, each with the URL it is given.
fetch_html(url, site) ==
    LET target == fetch_target(url)
        calls  == <<[call |-> "GET", to |-> target]>>
    IN  IF ~requests_accepts(target)
        THEN [ok |-> FALSE, calls |-> calls,
              exception |-> "Invalid URL '" \o target \o "': No scheme supplied."]
        ELSE IF site.status # "ok"
        THEN [ok |-> FALSE, calls |-> calls, exception |-> site.status]
        ELSE [ok |-> TRUE, calls |-> calls, soup |-> site.soup,
              load_time |-> site.load_time]

-----------------------------------------------------------------------------
(* RULE-BASED CHECKS: each returns (passed, reason). *)

Passed == [passed |-> TRUE, reason |-> ""]
Failed(reason) == [passed |-> FALSE, reason |-> reason]

\* a variant that tests the URL fetch_html requested
check_ssl_requested(url) ==
    IF startswith(lower(fetch_target(url)), "https://") THEN Passed
    ELSE Failed("No SSL (site not secure).")

check_ssl(url) ==
    IF startswith(lower(url), "https://") THEN Passed
    ELSE Failed("No SSL (site not secure).")

check_mobile_meta(soup) ==
    IF find_viewport(soup) THEN Passed
    ELSE Failed("Missing mobile viewport meta tag (not mobile-friendly).")

\* threshold: float = 4.0, in milliseconds
SpeedThreshold == 4000

check_page_speed(load_time) ==
    IF load_time <= SpeedThreshold THEN Passed
    ELSE Failed("Page load time " \o format_1f(load_time)
                \o "s (slower than 4.0s).")

\* len(title.strip()) > 5
TitleMinLen == 5

check_company_name_or_title(soup) ==
    LET title == IF has_title(soup) THEN title_string(soup) ELSE ""
    IN  IF /\ title # ""
           /\ ~Contains(lower(title), "home")
           /\ ~Contains(lower(title), "index")
           /\ Len(strip(title)) > TitleMinLen
        THEN Passed
        ELSE Failed("Generic or missing page title (poor SEO).")

\* r'\(\d{3}\)\s*\d{3}-\d{4}'
PhoneParenAt(text, i) ==
    /\ LitAt(text, i, "(")
    /\ DigitsAt(text, i + 1, 3)
    /\ LitAt(text, i + 4, ")")
    /\ \E ws \in 0..(Len(text) - (i + 4)) :
        /\ \A k \in (i + 5)..(i + 4 + ws) : CharAt(text, k) \in Whitespace
        /\ DigitsAt(text, i + 5 + ws, 3)
        /\ LitAt(text, i + 8 + ws, "-")
        /\ DigitsAt(text, i + 9 + ws, 4)

\* r'\d{3}-\d{3}-\d{4}' and r'\d{3}\.\d{3}\.\d{4}'
PhoneSepAt(text, i, sep) ==
    /\ DigitsAt(text, i, 3)
    /\ LitAt(text, i + 3, sep)
    /\ DigitsAt(text, i + 4, 3)
    /\ LitAt(text, i + 7, sep)
    /\ DigitsAt(text, i + 8, 4)

\* re.search over the four phone_patterns, on a string
phone_search(text) ==
    \E i \in 1..Len(text) :
        \/ PhoneParenAt(text, i)
        \/ PhoneSepAt(text, i, "-")
        \/ PhoneSepAt(text, i, ".")
        \/ DigitsAt(text, i, 10)

check_phone_number(soup) ==
    \* no pattern matches a filler character: a match lies in lit
    IF phone_search(get_text(soup).lit) THEN Passed
    ELSE Failed("No visible phone number found.")

contact_indicators == {"contact", "phone", "call", "email", "@", "address"}

check_contact_info(soup) ==
    LET text == text_lower(get_text(soup))
    IN  IF \E indicator \in contact_indicators : text_contains(text, indicator)
        THEN Passed
        ELSE Failed("Limited contact information visible.")

professional_indicators ==
    {"services", "about", "experience", "professional", "licensed",
     "insured", "certified", "quality", "expert"}

diy_builders == {"weebly", "wix", "squarespace", "godaddy"}

\* if count >= 4
ProfessionalMin == 4

\* a variant that counts the keywords before it looks for a builder
check_professional_content_count_first(soup) ==
    LET text  == text_lower(get_text(soup))
        count == Cardinality({indicator \in professional_indicators :
                                 text_contains(text, indicator)})
    IN  IF count >= ProfessionalMin THEN Passed
        ELSE IF \E builder \in diy_builders : text_contains(text, builder)
        THEN Failed("Built with DIY website builder (unprofessional appearance).")
        ELSE Failed("Content lacks sufficient professional business language.")

check_professional_content(soup) ==
    LET text  == text_lower(get_text(soup))
        count == Cardinality({indicator \in professional_indicators :
                                 text_contains(text, indicator)})
    IN  IF \E builder \in diy_builders : text_contains(text, builder)
        THEN Failed("Built with DIY website builder (unprofessional appearance).")
        ELSE IF count >= ProfessionalMin THEN Passed
        ELSE Failed("Content lacks sufficient professional business language.")

cta_phrases ==
    {"call now", "contact us", "get quote", "free estimate",
     "schedule", "book", "hire", "order"}

check_call_to_action(soup) ==
    LET text == text_lower(get_text(soup))
    IN  IF \E phrase \in cta_phrases : text_contains(text, phrase)
        THEN Passed
        ELSE Failed("No clear call-to-action found.")

social_indicators ==
    {"review", "testimonial", "customer", "client", "star",
     "rating", "feedback", "recommend"}

check_social_proof(soup) ==
    LET text == text_lower(get_text(soup))
    IN  IF \E indicator \in social_indicators : text_contains(text, indicator)
        THEN Passed
        ELSE Failed("No social proof or testimonials visible.")

\* if len(images) >= 2
ImagesMin == 2

check_images_and_media(soup) ==
    IF Len(find_all_img(soup)) >= ImagesMin THEN Passed
    ELSE Failed("Few or no images found (poor visual appeal).")

-----------------------------------------------------------------------------
(* MAIN ANALYSIS FUNCTION *)

\* the list `checks`: (name, (passed, reason)) in evaluation order
run_checks(url, soup, load_time) ==
    << [name |-> "SSL Certificate",       result |-> check_ssl(url)],
       [name |-> "Mobile Responsiveness", result |-> check_mobile_meta(soup)],
       [name |-> "Page Speed",            result |-> check_page_speed(load_time)],
       [name |-> "Professional Title",    result |-> check_company_name_or_title(soup)],
       [name |-> "Phone Number",          result |-> check_phone_number(soup)],
       [name |-> "Contact Information",   result |-> check_contact_info(soup)],
       [name |-> "Professional Content",  result |-> check_professional_content(soup)],
       [name |-> "Call to Action",        result |-> check_call_to_action(soup)],
       [name |-> "Social Proof",          result |-> check_social_proof(soup)],
       [name |-> "Images/Media",          result |-> check_images_and_media(soup)] >>

\* sum(1 for _, (passed, _) in checks if passed)
passed_checks(checks) ==
    Cardinality({i \in 1..Len(checks) : checks[i].result.passed})

poor_design_phrases == {"under construction", "coming soon"}

business_words == {"service", "about", "contact", "business", "company"}

\* if len(soup.get_text().strip()) < 500
MinContentLen == 500

\* if images_with_src < 2
ImagesWithSrcMin == 2

DiyPenalty == 2
PoorDesignPenalty == 3
MinimalContentPenalty == 2
MissingBusinessPenalty == 2
ImagesPenalty == 1

\* the loop counting the img elements whose src is truthy
images_with_src(soup) ==
    LET images == find_all_img(soup)
    IN  Cardinality({i \in 1..Len(images) : img_src_truthy(images[i])})

\* a variant that measures the text without strip()
quality_penalties_unstripped(soup) ==
    LET page_text_lower == text_lower(get_text(soup))
    IN    (IF \E builder \in diy_builders : text_contains(page_text_lower, builder)
           THEN DiyPenalty ELSE 0)
        + (IF \E phrase \in poor_design_phrases : text_contains(page_text_lower, phrase)
           THEN PoorDesignPenalty ELSE 0)
        + (IF text_len(get_text(soup)) < MinContentLen
           THEN MinimalContentPenalty ELSE 0)
        + (IF ~(\E word \in business_words : text_contains(page_text_lower, word))
           THEN MissingBusinessPenalty ELSE 0)
        + (IF images_with_src(soup) < ImagesWithSrcMin
           THEN ImagesPenalty ELSE 0)

\* the five `quality_penalties += ...` statements
\* a variant whose image penalty repeats the "+= 2" of the block above it
quality_penalties_heavy_images(soup) ==
    LET page_text_lower == text_lower(get_text(soup))
    IN    (IF \E builder \in diy_builders : text_contains(page_text_lower, builder)
           THEN DiyPenalty ELSE 0)
        + (IF \E phrase \in poor_design_phrases : text_contains(page_text_lower, phrase)
           THEN PoorDesignPenalty ELSE 0)
        + (IF text_len(text_strip(get_text(soup))) < MinContentLen
           THEN MinimalContentPenalty ELSE 0)
        + (IF ~(\E word \in business_words : text_contains(page_text_lower, word))
           THEN MissingBusinessPenalty ELSE 0)
        + (IF images_with_src(soup) < ImagesWithSrcMin
           THEN MissingBusinessPenalty ELSE 0)

quality_penalties(soup) ==
    LET page_text_lower == text_lower(get_text(soup))
    IN    (IF \E builder \in diy_builders : text_contains(page_text_lower, builder)
           THEN DiyPenalty ELSE 0)
        + (IF \E phrase \in poor_design_phrases : text_contains(page_text_lower, phrase)
           THEN PoorDesignPenalty ELSE 0)
        + (IF text_len(text_strip(get_text(soup))) < MinContentLen
           THEN MinimalContentPenalty ELSE 0)
        + (IF ~(\E word \in business_words : text_contains(page_text_lower, word))
           THEN MissingBusinessPenalty ELSE 0)
        + (IF images_with_src(soup) < ImagesWithSrcMin
           THEN ImagesPenalty ELSE 0)

ScoreFloor == 1
ScoreCeiling == 10

\* a variant without the max(1, ...)
compute_score_no_floor(base_score, penalties) ==
    Min(ScoreCeiling, base_score - penalties)

\* a variant that applies the floor to the base score, before the penalties
compute_score_floor_first(base_score, penalties) ==
    Min(ScoreCeiling, Max(ScoreFloor, base_score) - penalties)

\* final_score = max(1, base_score - quality_penalties); score = min(10, final_score)
compute_score(base_score, penalties) ==
    LET final_score == Max(ScoreFloor, base_score - penalties)
    IN  Min(ScoreCeiling, final_score)

\* the bullet glyph and the space that start a line of the report
Bullet == "* "

ReportHeader == "Issues found:"

SuccessSentence ==
    "Excellent! This website passes all basic checks for local business optimization."

\* [x for ... in checks if not passed and reason]
failing(checks) ==
    SelectSeq(checks, LAMBDA c : ~c.result.passed /\ c.result.reason # "")

\* a variant that lists every check, passed or not
build_report_unfiltered(checks) ==
    IF Len(failing(checks)) > 0
    THEN ReportHeader \o "\n"
         \o join("\n", [i \in 1..Len(checks) |-> Bullet \o checks[i].result.reason])
    ELSE SuccessSentence

build_report(checks) ==
    LET failed_checks == failing(checks)
    IN  IF Len(failed_checks) > 0
        THEN ReportHeader \o "\n"
             \o join("\n", [i \in 1..Len(failed_checks) |->
                               Bullet \o failed_checks[i].result.reason])
        ELSE SuccessSentence

extract_business_name(soup) ==
    IF has_title(soup) /\ title_string(soup) # ""
    THEN LET title_text == strip(title_string(soup))
         IN  IF /\ title_text # ""
                /\ ~Contains(lower(title_text), "home")
                /\ ~Contains(lower(title_text), "index")
             THEN title_text
             ELSE "Local Business"
    ELSE "Business"

\* soup.get_text()[:2000]
PageTextLen == 2000

\* analyze_website_comprehensive(url, openai_api_key): the dictionary it
\* returns, or the exception it raises.
analyze_website_comprehensive(url, site) ==
    LET fetched == fetch_html(url, site)
    IN  IF ~fetched.ok
        THEN [outcome |-> "raised", url |-> url, calls |-> fetched.calls,
              exception |-> "Failed to analyze website: " \o fetched.exception]
        ELSE LET soup      == fetched.soup
                 load_time == fetched.load_time
                 checks    == run_checks(url, soup, load_time)
                 penalties == quality_penalties(soup)
                 text      == get_text(soup)
             IN  [outcome       |-> "returned",
                  calls         |-> fetched.calls,
                  url           |-> url,
                  score         |-> compute_score(passed_checks(checks), penalties),
                  report        |-> build_report(checks),
                  business_name |-> extract_business_name(soup),
                  page_text     |-> text_prefix(text, PageTextLen),
                  load_time     |-> load_time,
                  checks        |-> checks]

-----------------------------------------------------------------------------
(* AI-POWERED FUNCTIONS.  Each returns [raised, value, calls]: whether an  *)
(* exception left the function, the string it returned, and the requests   *)
(* it sent to the text service.  A reply of the service is                 *)
(* [kind |-> "text", content] or [kind |-> "error", message], the          *)
(* exception client.chat.completions.create raised.                        *)

\* s.replace(old, new)
RECURSIVE replace(_, _, _)
replace(s, old, new) ==
    IF Len(s) < Len(old) \/ Len(s) = 0 THEN s
    ELSE IF startswith(s, old) /\ Len(old) > 0
    THEN new \o replace(SubSeq(s, Len(old) + 1, Len(s)), old, new)
    ELSE CharAt(s, 1) \o replace(SubSeq(s, 2, Len(s)), old, new)

\* s.split(sep)[0], sep one character
split_first(s, sep) ==
    LET hits == {i \in 1..Len(s) : CharAt(s, i) = sep}
    IN  IF hits = {} THEN s
        ELSE SubSeq(s, 1, (CHOOSE i \in hits : \A j \in hits : i <= j) - 1)

\* s[:n]
prefix(s, n) == SubSeq(s, 1, Min(n, Len(s)))

\* client.chat.completions.create(model="gpt-4o", messages=[prompt], max_tokens=...)
chat_call(task, fields, max_tokens) ==
    [call |-> "chat.completions.create", task |-> task, model |-> "gpt-4o",
     prompt |-> fields, max_tokens |-> max_tokens]

\* a variant that sends the request again after an exception
service_task_retry(task, label, fields, max_tokens, service) ==
    LET reply == service[task]
        call  == chat_call(task, fields, max_tokens)
    IN  IF reply.kind = "text"
        THEN [raised |-> FALSE, value |-> strip(reply.content), calls |-> <<call>>]
        ELSE [raised |-> FALSE,
              value  |-> "Unable to generate " \o label \o ": " \o reply.message,
              calls  |-> <<call, call>>]

\* the body shared by the three service-backed tasks: build the prompt, send
\* one request, return the stripped content; any exception becomes the
\* fallback string
service_task(task, label, fields, max_tokens, service) ==
    LET reply == service[task]
        calls == <<chat_call(task, fields, max_tokens)>>
    IN  IF reply.kind = "text"
        THEN [raised |-> FALSE, value |-> strip(reply.content), calls |-> calls]
        ELSE [raised |-> FALSE,
              value  |-> "Unable to generate " \o label \o ": " \o reply.message,
              calls  |-> calls]

QualificationMaxTokens == 150
EmailMaxTokens == 300
DmMaxTokens == 150

\* analysis_results['report'][:200]
DmReportLen == 200

generate_lead_qualification(results, service) ==
    service_task("qualification", "lead qualification",
                 <<results.url, results.business_name, results.report>>,
                 QualificationMaxTokens, service)

\* a variant without the try/except: the exception leaves the function
generate_outreach_email_unguarded(results, service) ==
    IF service["email"].kind = "text"
    THEN [raised |-> FALSE, value |-> strip(service["email"].content),
          calls  |-> <<chat_call("email",
                                 <<results.url, results.business_name, results.report>>,
                                 300)>>]
    ELSE [raised |-> TRUE, value |-> service["email"].message,
          calls  |-> <<chat_call("email",
                                 <<results.url, results.business_name, results.report>>,
                                 300)>>]

generate_outreach_email(results, service) ==
    service_task("email", "outreach email",
                 <<results.url, results.business_name, results.report>>,
                 EmailMaxTokens, service)

generate_outreach_dm(results, service) ==
    service_task("dm", "outreach DM",
                 <<results.business_name, prefix(results.report, DmReportLen)>>,
                 DmMaxTokens, service)

plumbing_words == {"plumb", "pipe", "drain", "water"}
electrical_words == {"electric", "wire", "power"}
roofing_words == {"roof", "gutter", "shingle"}
hvac_words == {"hvac", "air", "heat", "cool"}
landscaping_words == {"lawn", "landscape", "garden"}

\* a variant whose chain tests the electrical family before the plumbing one
business_type_electrical_first(page_text) ==
    LET text == text_lower(page_text)
    IN  IF \E word \in electrical_words : text_contains(text, word)
        THEN "Electrical Company"
        ELSE IF \E word \in plumbing_words : text_contains(text, word)
        THEN "Plumbing Company"
        ELSE IF \E word \in roofing_words : text_contains(text, word)
        THEN "Roofing Company"
        ELSE IF \E word \in hvac_words : text_contains(text, word)
        THEN "HVAC Company"
        ELSE IF \E word \in landscaping_words : text_contains(text, word)
        THEN "Landscaping Company"
        ELSE "Local Business"

\* the if/elif chain over the keyword families
business_type(page_text) ==
    LET text == text_lower(page_text)
    IN  IF \E word \in plumbing_words : text_contains(text, word)
        THEN "Plumbing Company"
        ELSE IF \E word \in electrical_words : text_contains(text, word)
        THEN "Electrical Company"
        ELSE IF \E word \in roofing_words : text_contains(text, word)
        THEN "Roofing Company"
        ELSE IF \E word \in hvac_words : text_contains(text, word)
        THEN "HVAC Company"
        ELSE IF \E word \in landscaping_words : text_contains(text, word)
        THEN "Landscaping Company"
        ELSE "Local Business"

\* analysis_results['url'].replace("https://", "").replace("http://", "").split("/")[0]
domain_of(url) ==
    split_first(replace(replace(url, "https://", ""), "http://", ""), "/")

\* template is [exists, text]: the file replit_prompt_template.txt
generate_replit_prompt(results, template) ==
    IF ~template.exists
    THEN [raised |-> FALSE,
          value  |-> "Unable to generate Replit prompt: "
                     \o "[Errno 2] No such file or directory: 'replit_prompt_template.txt'",
          calls  |-> <<>>]
    ELSE LET location == "Local Area"
             filled1  == replace(template.text, "{domain}", domain_of(results.url))
             filled2  == replace(filled1, "{business_type}",
                                 business_type(results.page_text))
             filled3  == replace(filled2, "{location}", location)
         IN  [raised |-> FALSE, value |-> filled3, calls |-> <<>>]

-----------------------------------------------------------------------------
(* The inputs: URLs, pages and load times the analyses are run on. *)

URLs ==
    {"example.com", "http://example.com", "https://example.com",
     "HTTPS://Example.com", "httpbin.org"}

\* the URLs the scoring engine alone is run on
ScoreURLs == {"example.com", "http://example.com", "https://example.com"}

\* st.session_state.analysis_results = None
NoResults == [none |-> TRUE]

\* no call of analyze_website_comprehensive yet
NoAnalysis == [outcome |-> "none"]

NoTitle == [present |-> FALSE, string |-> ""]
Title(s) == [present |-> TRUE, string |-> s]

Titles == {NoTitle, Title("Home"), Title("Acme Plumbing")}

MetaLists == {<<"description">>, <<"description", "viewport">>}

\* most img elements a page of the model holds
MaxImgs == 2

NoSrc == <<>>
Src(s) == <<s>>

\* img(withSrc): an img element with a src, or with none
img(withSrc) == IF withSrc THEN Src("logo.png") ELSE NoSrc

\* the img lists: up to MaxImgs elements of which at most the last lacks
\* its src, and one list whose second element has an empty src
ImgLists ==
    {[i \in 1..n |-> img(i < n \/ lastHasSrc)] :
        n \in 0..MaxImgs, lastHasSrc \in BOOLEAN}
    \cup {<<Src("logo.png"), Src("")>>}

Phrases ==
    << "\n  Licensed, insured, certified EXPERTS. ",
       "About our Services: contact us. Customer reviews. ",
       "Call now (555) 123-4567 - 5 star rated. ",
       "Built with Wix. ",
       "Coming Soon! " >>

\* the phrases whose index is in chosen, in the order of Phrases
RECURSIVE concat(_, _)
concat(chosen, i) ==
    IF i > Len(Phrases) THEN ""
    ELSE (IF i \in chosen THEN Phrases[i] ELSE "") \o concat(chosen, i + 1)

\* the lengths the bodies are filled up to: short of 500, and 500
PadLengths == {296, 500}

\* the empty body, and every selection of phrases filled up to each length
Bodies ==
    {[body |-> "", fill |-> 0]} \cup
    {[body |-> concat(chosen, 1),
      fill |-> Max(0, n - Len(concat(chosen, 1)))] :
        chosen \in SUBSET (1..Len(Phrases)), n \in PadLengths}

Soups ==
    {[title |-> title, metas |-> metas, imgs |-> imgs,
      body |-> b.body, fill |-> b.fill] :
        title \in Titles, metas \in MetaLists, imgs \in ImgLists, b \in Bodies}

LoadTimes == {4000, 5200}

FetchFailures == {"timeout", "connection error", "404 Client Error"}

Sites ==
    [status : {"ok"}, soup : Soups, load_time : LoadTimes]

TextReply(content) == [kind |-> "text", content |-> content]
ErrorReply(message) == [kind |-> "error", message |-> message]

Tasks == {"qualification", "email", "dm"}

\* a service that answers every task
GoodService ==
    [task \in Tasks |->
        IF task = "qualification"
        THEN TextReply(" Yes. The site is losing customers. ")
        ELSE IF task = "email"
        THEN TextReply("Subject: Your website\n\nHello, we can help.\n")
        ELSE TextReply("Hi! Noticed your website. ")]

NoTemplate == [exists |-> FALSE, text |-> ""]
Template ==
    [exists |-> TRUE,
     text   |-> "Build a site for {domain}, a {business_type} in {location}."]

-----------------------------------------------------------------------------
(* The scoring engine alone: every page of Sites, analysed under every URL. *)

InitScore ==
    /\ api_key_validated = TRUE
    /\ openai_api_key = "sk-0123456789abcdefghij"
    /\ analysis_results = NoResults
    /\ current_url = ""
    /\ error = ""
    /\ env \in [site : Sites, service : {GoodService}, template : {Template}]
    /\ analysis = NoAnalysis
    /\ requests = <<>>

Analyze(url) ==
    /\ analysis = NoAnalysis
    /\ analysis' = analyze_website_comprehensive(url, env.site)
    /\ requests' = analysis'.calls
    /\ UNCHANGED <<api_key_validated, openai_api_key, analysis_results,
                   current_url, error, env>>

NextScore == \E url \in ScoreURLs : Analyze(url)

SpecScore == InitScore /\ [][NextScore]_vars

-----------------------------------------------------------------------------
(* The Streamlit session (app.py).  Every action is one run of main() with *)
(* one button pressed; error, analysis and requests describe that run.     *)

\* the four generation calls of analysis_screen, in order, inside its try:
\* an exception leaving one of them skips the rest
run_generation(results, service, template) ==
    LET lead_qual      == generate_lead_qualification(results, service)
        replit_prompt  == generate_replit_prompt(results, template)
        outreach_email == generate_outreach_email(results, service)
        outreach_dm    == generate_outreach_dm(results, service)
    IN  IF lead_qual.raised
        THEN [raised |-> TRUE, exception |-> lead_qual.value,
              calls |-> lead_qual.calls]
        ELSE IF replit_prompt.raised
        THEN [raised |-> TRUE, exception |-> replit_prompt.value,
              calls |-> lead_qual.calls \o replit_prompt.calls]
        ELSE IF outreach_email.raised
        THEN [raised |-> TRUE, exception |-> outreach_email.value,
              calls |-> lead_qual.calls \o replit_prompt.calls
                        \o outreach_email.calls]
        ELSE IF outreach_dm.raised
        THEN [raised |-> TRUE, exception |-> outreach_dm.value,
              calls |-> lead_qual.calls \o replit_prompt.calls
                        \o outreach_email.calls \o outreach_dm.calls]
        ELSE [raised |-> FALSE,
              calls  |-> lead_qual.calls \o replit_prompt.calls
                         \o outreach_email.calls \o outreach_dm.calls,
              stored |-> [analysis           |-> results,
                          lead_qualification |-> lead_qual.value,
                          replit_prompt      |-> replit_prompt.value,
                          outreach_email     |-> outreach_email.value,
                          outreach_dm        |-> outreach_dm.value]]

\* api_key.startswith("sk-") and len(api_key) > 20
ApiKeyMinLen == 20

\* api_key_screen: the Continue button
Continue(api_key) ==
    /\ ~api_key_validated
    /\ IF startswith(api_key, "sk-") /\ Len(api_key) > ApiKeyMinLen
       THEN /\ openai_api_key' = api_key
            /\ api_key_validated' = TRUE
            /\ error' = ""
       ELSE /\ error' = "Please enter a valid OpenAI API key."
            /\ UNCHANGED <<openai_api_key, api_key_validated>>
    /\ analysis' = NoAnalysis
    /\ requests' = <<>>
    /\ UNCHANGED <<analysis_results, current_url, env>>

\* analysis_screen: the Analyze Website button
AnalyzeClick(website_url) ==
    /\ api_key_validated
    /\ analysis_results = NoResults
    /\ IF strip(website_url) = ""
       THEN /\ error' = "Please enter a website URL."
            /\ analysis' = NoAnalysis
            /\ requests' = <<>>
            /\ UNCHANGED <<analysis_results, current_url>>
       ELSE /\ current_url' = strip(website_url)
            /\ analysis' = analyze_website_comprehensive(strip(website_url), env.site)
            /\ IF analysis'.outcome = "raised"
               THEN /\ error' = "Analysis failed: " \o analysis'.exception
                    /\ requests' = analysis'.calls
                    /\ UNCHANGED analysis_results
               ELSE LET gen == run_generation(analysis', env.service, env.template)
                    IN  IF gen.raised
                        THEN /\ error' = "Analysis failed: " \o gen.exception
                             /\ requests' = analysis'.calls \o gen.calls
                             /\ UNCHANGED analysis_results
                        ELSE /\ error' = ""
                             /\ requests' = analysis'.calls \o gen.calls
                             /\ analysis_results' = gen.stored
    /\ UNCHANGED <<api_key_validated, openai_api_key, env>>

\* a variant that also forgets the validated key
Reset_forgets_key ==
    /\ api_key_validated
    /\ analysis_results # NoResults
    /\ analysis_results' = NoResults
    /\ current_url' = ""
    /\ error' = ""
    /\ analysis' = NoAnalysis
    /\ requests' = <<>>
    /\ api_key_validated' = FALSE
    /\ openai_api_key' = ""
    /\ UNCHANGED env

\* results_screen: the Reset button
Reset ==
    /\ api_key_validated
    /\ analysis_results # NoResults
    /\ analysis_results' = NoResults
    /\ current_url' = ""
    /\ error' = ""
    /\ analysis' = NoAnalysis
    /\ requests' = <<>>
    /\ UNCHANGED <<api_key_validated, openai_api_key, env>>

ApiKeys ==
    {"sk-0123456789abcdefghij", "sk-abcdefghij0123456789", "sk-short",
     "pk-0123456789abcdefghij"}

\* what the user types into the URL field
TypedURLs == URLs \cup {"   ", " example.com/contact "}

RichSoup ==
    [title |-> Title("Acme Plumbing"), metas |-> <<"viewport">>,
     imgs  |-> <<Src("logo.png"), Src("van.png")>>,
     body  |-> Phrases[1] \o Phrases[2] \o Phrases[3], fill |-> 500]

PoorSoup ==
    [title |-> Title("Home"), metas |-> <<>>, imgs |-> <<>>,
     body  |-> Phrases[4] \o Phrases[5], fill |-> 0]

\* pages of the trades generate_replit_prompt tells apart
TradeBodies ==
    {"Electric wiring and drain cleaning. ",
     "Electric panels and POWER. ",
     "Roof and gutter repair. ",
     "Heating and cooling. ",
     "Lawn and Garden design. "}

TradeSoups ==
    {[title |-> Title("Home"), metas |-> <<"viewport">>,
      imgs  |-> <<Src("logo.png")>>, body |-> b, fill |-> 0] : b \in TradeBodies}

Replies ==
    [qualification |-> {TextReply(" Yes. The site is losing customers. "),
                        ErrorReply("Connection error.")},
     email         |-> {TextReply("Subject: Your website\n\nHello, we can help.\n"),
                        ErrorReply("Request timed out.")},
     dm            |-> {TextReply("Hi! Noticed your website. "),
                        ErrorReply("Rate limit reached.")}]

Services == {service \in [Tasks -> UNION {Replies[t] : t \in Tasks}] :
                \A t \in Tasks : service[t] \in Replies[t]}

AppEnvs ==
    [site     : [status : {"ok"}, soup : {RichSoup, PoorSoup}, load_time : {5200}],
     service  : Services,
     template : {Template, NoTemplate}]
    \cup
    [site     : [status : FetchFailures, soup : {PoorSoup}, load_time : {5200}],
     service  : {GoodService},
     template : {Template}]
    \cup
    [site     : [status : {"ok"}, soup : TradeSoups, load_time : {5200}],
     service  : {GoodService},
     template : {Template}]

Init ==
    /\ api_key_validated = FALSE
    /\ openai_api_key = ""
    /\ analysis_results = NoResults
    /\ current_url = ""
    /\ error = ""
    /\ env \in AppEnvs
    /\ analysis = NoAnalysis
    /\ requests = <<>>

Next ==
    \/ \E api_key \in ApiKeys : Continue(api_key)
    \/ \E website_url \in TypedURLs : AnalyzeClick(website_url)
    \/ Reset

Spec == Init /\ [][Next]_vars

-----------------------------------------------------------------------------
(* What the claims speak of, read off the page and the returned analysis. *)

Returned == analysis.outcome = "returned"

\* the page the last analysis fetched
Page == env.site.soup

\* the page's text in lower case, as the matching is case-insensitive
PageTextLower == text_lower(get_text(Page))

\* the number of the ten predicates that passed
NumPassed == Cardinality({i \in 1..Len(analysis.checks) : analysis.checks[i].result.passed})

NumFailed == Cardinality({i \in 1..Len(analysis.checks) : ~analysis.checks[i].result.passed})

HasBrand ==
    \E brand \in {"weebly", "wix", "squarespace", "godaddy"} :
        text_contains(PageTextLower, brand)

HasPlaceholderWords ==
    \/ text_contains(PageTextLower, "under construction")
    \/ text_contains(PageTextLower, "coming soon")

ShortText == text_len(text_strip(get_text(Page))) < 500

NoBusinessWord ==
    \A word \in {"service", "about", "contact", "business", "company"} :
        ~text_contains(PageTextLower, word)

FewImagesWithSrc ==
    Cardinality({i \in 1..Len(Page.imgs) :
                    Page.imgs[i] # <<>> /\ Page.imgs[i] # <<"">>}) < 2

\* the four penalties other than the DIY-builder one
OtherPenalties ==
      (IF HasPlaceholderWords THEN 3 ELSE 0)
    + (IF ShortText THEN 2 ELSE 0)
    + (IF NoBusinessWord THEN 2 ELSE 0)
    + (IF FewImagesWithSrc THEN 1 ELSE 0)

\* Q: the sum of the five penalties
PenaltySum == (IF HasBrand THEN 2 ELSE 0) + OtherPenalties

Clamp(n) == IF n < 1 THEN 1 ELSE IF n > 10 THEN 10 ELSE n

-----------------------------------------------------------------------------
(* C1: whenever analyze_website_comprehensive returns, the score is an     *)
(* integer between 1 and 10.                                               *)
C1_ScoreInRange == Returned => analysis.score \in 1..10

\* a returned analysis whose passed checks minus penalties lies below 1
C1_Witness == Returned /\ NumPassed - PenaltySum < 1 /\ analysis.score = 1

(* C2: the score is min(10, max(1, P - Q)), P the number of passed         *)
(* predicates and Q the sum of the five penalties; ten passed predicates   *)
(* and no penalty give 10.                                                 *)
C2_ScoreFormula ==
    Returned =>
        /\ analysis.score = Clamp(NumPassed - PenaltySum)
        /\ (NumPassed = 10 /\ PenaltySum = 0 => analysis.score = 10)

\* a page on which all ten predicates pass and no penalty applies
C2_Witness == Returned /\ NumPassed = 10 /\ PenaltySum = 0 /\ analysis.score = 10

(* C3: when none of the ten predicates passes the score is 1, whatever the *)
(* penalties.                                                              *)
C3_ZeroPassedScoresOne == Returned /\ NumPassed = 0 => analysis.score = 1

\* no predicate passes and all five penalties apply
C3_Witness == Returned /\ NumPassed = 0 /\ PenaltySum = 10 /\ analysis.score = 1

\* s.split("\n")
RECURSIVE lines_of(_)
lines_of(s) ==
    LET breaks == {i \in 1..Len(s) : CharAt(s, i) = "\n"}
    IN  IF breaks = {} THEN <<s>>
        ELSE LET first == CHOOSE i \in breaks : \A j \in breaks : i <= j
             IN  <<SubSeq(s, 1, first - 1)>> \o lines_of(SubSeq(s, first + 1, Len(s)))

\* the ten predicates in evaluation order
CheckOrder ==
    << "SSL Certificate", "Mobile Responsiveness", "Page Speed",
       "Professional Title", "Phone Number", "Contact Information",
       "Professional Content", "Call to Action", "Social Proof", "Images/Media" >>

\* how the failure reasons of each predicate begin
ReasonStems ==
    << {"No SSL"}, {"Missing mobile viewport"}, {"Page load time"},
       {"Generic or missing page title"}, {"No visible phone number"},
       {"Limited contact information"},
       {"Built with DIY website builder", "Content lacks sufficient"},
       {"No clear call-to-action"}, {"No social proof"}, {"Few or no images"} >>

\* the reasons of the failed predicates, in evaluation order
RECURSIVE FailedReasons(_)
FailedReasons(i) ==
    IF i > Len(analysis.checks) THEN <<>>
    ELSE (IF analysis.checks[i].result.passed THEN <<>>
          ELSE <<analysis.checks[i].result.reason>>) \o FailedReasons(i + 1)

(* C4: the report is the success sentence iff every reason is empty;       *)
(* otherwise it lists the reasons of the failed predicates, each once, in  *)
(* the fixed evaluation order, and no reason of a passed predicate.        *)
C4_ReportListsFailures ==
    Returned =>
        LET checks  == analysis.checks
            reasons == FailedReasons(1)
        IN  /\ [i \in 1..Len(checks) |-> checks[i].name] = CheckOrder
            /\ (analysis.report = SuccessSentence)
                   <=> (\A i \in 1..Len(checks) : checks[i].result.reason = "")
            /\ (\E i \in 1..Len(checks) : checks[i].result.reason # "") =>
                   lines_of(analysis.report)
                       = <<ReportHeader>>
                         \o [k \in 1..Len(reasons) |-> Bullet \o reasons[k]]
            /\ \A i \in 1..Len(checks) :
                   /\ checks[i].result.passed <=> checks[i].result.reason = ""
                   /\ ~checks[i].result.passed =>
                          \E stem \in ReasonStems[i] :
                              startswith(checks[i].result.reason, stem)
                   /\ checks[i].result.passed =>
                          \A stem \in ReasonStems[i] :
                              ~Contains(analysis.report, stem)

\* a report that lists some failures, the slow page among them, while other predicates passed
C4_Witness ==
    /\ Returned
    /\ NumPassed >= 3
    /\ NumFailed >= 3
    /\ ~analysis.checks[3].result.passed
    /\ Len(lines_of(analysis.report)) = NumFailed + 1

\* how many of the nine professional keywords appear in the page text
KeywordCount ==
    Cardinality({keyword \in {"services", "about", "experience", "professional",
                              "licensed", "insured", "certified", "quality", "expert"} :
                    text_contains(PageTextLower, keyword)})

(* C9: a page whose text holds a DIY-builder brand fails the professional  *)
(* content predicate with the DIY-builder reason however many keywords it  *)
(* holds, and its penalties include the 2 of the brand, so it scores at    *)
(* most 7; a page without a brand passes iff at least 4 keywords appear.   *)
C9_BrandFailsProfessionalContent ==
    Returned =>
        LET professional == analysis.checks[7].result
        IN  /\ HasBrand =>
                /\ professional =
                       [passed |-> FALSE,
                        reason |-> "Built with DIY website builder (unprofessional appearance)."]
                /\ analysis.score = Clamp(NumPassed - (2 + OtherPenalties))
                /\ analysis.score <= 7
            /\ ~HasBrand => (professional.passed <=> KeywordCount >= 4)

\* a page with a brand and at least 4 keywords whose other predicates all pass
C9_Witness ==
    /\ Returned
    /\ HasBrand
    /\ KeywordCount >= 4
    /\ ~analysis.checks[7].result.passed
    /\ analysis.score = 7

\* the page of the scenario: title "Home", no viewport meta tag, a load time
\* of 5.2 s, no phone pattern, 300 characters of text
C10_Scenario ==
    /\ Returned
    /\ Page.title = Title("Home")
    /\ \A i \in 1..Len(Page.metas) : Page.metas[i] # "viewport"
    /\ analysis.load_time = 5200
    /\ ~phone_search(get_text(Page).lit)
    /\ text_len(get_text(Page)) = 300

(* C10 as stated: on the page of the scenario at least 4 predicates fail,  *)
(* the penalties are at least 4 and the score is 1.                        *)
C10_AsStated ==
    C10_Scenario => NumFailed >= 4 /\ PenaltySum >= 4 /\ analysis.score = 1

(* C10 as amended: on the page of the scenario at least 4 predicates fail, *)
(* the penalties are at least 2 (the short text) and the score is at most  *)
(* 4.                                                                      *)
C10_ScenarioScoresAtMostFour ==
    C10_Scenario => NumFailed >= 4 /\ ShortText /\ PenaltySum >= 2 /\ analysis.score <= 4

\* a page of the scenario with business words whose six other predicates pass
C10_Witness ==
    C10_Scenario /\ NumFailed = 4 /\ PenaltySum = 2 /\ analysis.score = 4

-----------------------------------------------------------------------------
(* The claims about one run of the Analyze Website handler. *)

\* the requests of the last run sent to the text service, and the page fetches
ChatCalls == SelectSeq(requests, LAMBDA r : r.call = "chat.completions.create")
GetCalls == SelectSeq(requests, LAMBDA r : r.call = "GET")

\* the string stored for a service-backed task
StoredFor(task) ==
    IF task = "qualification" THEN analysis_results.lead_qualification
    ELSE IF task = "email" THEN analysis_results.outreach_email
    ELSE analysis_results.outreach_dm

(* C5: after a successful analysis a failing generation task (a service    *)
(* error, a missing template file) raises nothing and stops no other task: *)
(* the results are stored, the failed task's string embeds the error       *)
(* message, every other task has its own result, and the score and report  *)
(* of the analysis are delivered.                                          *)
C5_GenerationFailuresAreContained ==
    Returned =>
        /\ analysis_results # NoResults
        /\ error = ""
        /\ analysis_results.analysis.score = analysis.score
        /\ analysis_results.analysis.report = analysis.report
        /\ \A task \in Tasks :
              IF env.service[task].kind = "error"
              THEN /\ startswith(StoredFor(task), "Unable to generate ")
                   /\ endswith(StoredFor(task), env.service[task].message)
              ELSE StoredFor(task) = strip(env.service[task].content)
        /\ IF env.template.exists
           THEN /\ ~Contains(analysis_results.replit_prompt, "Unable to generate")
                /\ ~Contains(analysis_results.replit_prompt, "{")
           ELSE /\ startswith(analysis_results.replit_prompt, "Unable to generate ")
                /\ Contains(analysis_results.replit_prompt, "No such file or directory")

\* the outreach email failed while the qualification and the DM were answered
C5_Witness ==
    /\ Returned
    /\ env.service["email"].kind = "error"
    /\ env.service["qualification"].kind = "text"
    /\ env.service["dm"].kind = "text"
    /\ analysis_results # NoResults
    /\ Contains(analysis_results.outreach_email, "Request timed out.")

\* the handler ran with a URL and the site did not answer with a page
FetchFailed ==
    /\ analysis.outcome # "none"
    /\ \/ env.site.status # "ok"
       \/ ~requests_accepts(fetch_target(analysis.url))

(* C6: when the page fetch fails, analyze_website_comprehensive raises one *)
(* wrapped exception and returns nothing: there is no score and no report, *)
(* no generation task is invoked, and analysis_results stays None, so the  *)
(* results screen is not reached.                                          *)
C6_FetchFailureAbortsAnalysis ==
    FetchFailed =>
        /\ analysis.outcome = "raised"
        /\ startswith(analysis.exception, "Failed to analyze website: ")
        /\ requests_accepts(fetch_target(analysis.url))
              => analysis.exception = "Failed to analyze website: " \o env.site.status
        /\ DOMAIN analysis \cap {"score", "report", "checks"} = {}
        /\ ChatCalls = <<>>
        /\ analysis_results = NoResults
        /\ error = "Analysis failed: " \o analysis.exception

\* a fetch that timed out
C6_Witness ==
    /\ FetchFailed
    /\ env.site.status = "timeout"
    /\ analysis.outcome = "raised"
    /\ current_url = "example.com"
    /\ analysis_results = NoResults

\* the URL carries no scheme / carries the http:// or https:// scheme
HasNoScheme(url) == ~Contains(url, "://")
HasHttpScheme(url) ==
    startswith(lower(url), "http://") \/ startswith(lower(url), "https://")

(* C7: a URL without a scheme is requested as "https://" followed by the   *)
(* URL, and a URL with the http:// or https:// scheme is requested         *)
(* unchanged.                                                              *)
C7_SchemeIsNormalized ==
    analysis.outcome # "none" =>
        /\ Len(GetCalls) = 1
        /\ HasNoScheme(analysis.url) => GetCalls[1].to = "https://" \o analysis.url
        /\ HasHttpScheme(analysis.url) => GetCalls[1].to = analysis.url

(* C8: in one analysis request every external call is made exactly once:   *)
(* one GET for the page, and after a successful fetch one service request  *)
(* for the qualification, then one for the email, then one for the DM,     *)
(* whether or not an earlier call failed; the rebuild prompt sends none.   *)
C8_EachCallOnce ==
    /\ analysis.outcome = "none" => requests = <<>>
    /\ analysis.outcome # "none" =>
          /\ Len(GetCalls) = 1
          /\ requests[1].call = "GET"
    /\ analysis.outcome = "raised" => Len(requests) = 1
    /\ Returned =>
          /\ Len(requests) = 4
          /\ [i \in 1..Len(ChatCalls) |-> ChatCalls[i].task]
                 = <<"qualification", "email", "dm">>

\* the qualification request failed and the email and DM requests were still sent, once each
C8_Witness ==
    /\ Returned
    /\ env.service["qualification"].kind = "error"
    /\ env.service["email"].kind = "error"
    /\ ~env.template.exists
    /\ Len(requests) = 4
    /\ requests[4].task = "dm"

-----------------------------------------------------------------------------
(* The claims about the business name, the business type, the report, the  *)
(* secure-transport predicate and the session.                             *)

\* the title of a page is present and contains neither "home" nor "index"
SpecificTitle(soup) ==
    /\ soup.title.present
    /\ ~Contains(lower(soup.title.string), "home")
    /\ ~Contains(lower(soup.title.string), "index")

\* the page analysed, with another title in place of its own
WithTitle(t) == [Page EXCEPT !.title = t]

(* C11: the business name is the title text when a title is present and    *)
(* contains neither "home" nor "index"; in every other case it is one and  *)
(* the same fallback label, whichever title (none, generic) the page has.  *)
C11_OneFallbackLabel ==
    Returned =>
        /\ SpecificTitle(Page) =>
              analysis.business_name = strip(Page.title.string)
        /\ ~SpecificTitle(Page) =>
              \A t \in Titles :
                 ~SpecificTitle(WithTitle(t)) =>
                    extract_business_name(WithTitle(t)) = analysis.business_name

\* the keyword families in the order of the claim, with their categories
TradeFamilies ==
    << [category |-> "Plumbing Company",    words |-> plumbing_words],
       [category |-> "Electrical Company",  words |-> electrical_words],
       [category |-> "Roofing Company",     words |-> roofing_words],
       [category |-> "HVAC Company",        words |-> hvac_words],
       [category |-> "Landscaping Company", words |-> landscaping_words] >>

\* the families one of whose keywords is in the lower-cased excerpt
FamiliesHit ==
    {i \in 1..Len(TradeFamilies) :
        \E word \in TradeFamilies[i].words :
            text_contains(text_lower(analysis.page_text), word)}

\* the category of the first family hit
FirstCategory ==
    IF FamiliesHit = {} THEN "Local Business"
    ELSE TradeFamilies[CHOOSE i \in FamiliesHit : \A j \in FamiliesHit : i <= j].category

\* the rebuild prompt was filled from the template
PromptFilled ==
    Returned /\ env.template.exists /\ analysis_results # NoResults

(* C12: the business type put into the rebuild prompt is the category of   *)
(* the first family, in the order plumbing, electrical, roofing, HVAC,     *)
(* landscaping, with a keyword in the lower-cased page text excerpt, and   *)
(* "Local Business" when no family has one; a text with plumbing and       *)
(* electrical keywords is a "Plumbing Company".                            *)
C12_FirstFamilyWins ==
    PromptFilled =>
        /\ Contains(analysis_results.replit_prompt, ", a " \o FirstCategory \o " in ")
        /\ {1, 2} \subseteq FamiliesHit =>
              Contains(analysis_results.replit_prompt, ", a Plumbing Company in ")

\* a page with an electrical and a plumbing keyword, the electrical one first
C12_Witness ==
    /\ PromptFilled
    /\ {1, 2} \subseteq FamiliesHit
    /\ startswith(Page.body, "Electric")
    /\ Contains(analysis_results.replit_prompt, "Plumbing Company")

\* all ten predicates of the analysis passed
AllTenPass == Returned /\ NumPassed = 10

(* C13: the report does not depend on the quality penalties: when all ten  *)
(* predicates pass the report is the success sentence whatever the         *)
(* penalties are, the score is ten less the penalties, and it is never     *)
(* below 2.                                                                *)
C13_ReportIgnoresPenalties ==
    AllTenPass =>
        /\ analysis.report = SuccessSentence
        /\ analysis.score = 10 - PenaltySum
        /\ analysis.score >= 2

\* all ten predicates pass, the report is the success sentence, and the
\* penalties alone (placeholder words, short text, no business word, an img
\* without src) bring the score down to 2
C13_Witness ==
    /\ AllTenPass
    /\ analysis.report = SuccessSentence
    /\ PenaltySum = 8
    /\ analysis.score = 2

\* the URL given to the analysis starts with "https://", in any case
InputIsHttps == startswith(lower(analysis.url), "https://")

\* the secure-transport predicate, first of the ten
SslCheck == analysis.checks[1]

\* the predicates other than the first that passed
OthersPassed ==
    Cardinality({i \in 2..Len(analysis.checks) : analysis.checks[i].result.passed})

(* C14: the secure-transport predicate is evaluated on the URL as the      *)
(* caller passed it, not on the URL requested: for every input URL that    *)
(* does not start with "https://", also one without a scheme that is       *)
(* fetched over https://, the predicate fails with the 'No SSL' reason and *)
(* does not count toward the base score, and the returned url is the       *)
(* input, not the normalized URL.                                          *)
C14_SslCheckedOnInputUrl ==
    Returned /\ ~InputIsHttps =>
        /\ SslCheck.name = "SSL Certificate"
        /\ ~SslCheck.result.passed
        /\ SslCheck.result.reason = "No SSL (site not secure)."
        /\ NumPassed = OthersPassed
        /\ analysis.score = Clamp(OthersPassed - PenaltySum)
        /\ analysis.url \in ScoreURLs
        /\ HasNoScheme(analysis.url) =>
              GetCalls[1].to = "https://" \o analysis.url
        /\ Contains(analysis.report, "No SSL (site not secure).")

\* "example.com" was fetched from "https://example.com" and the predicate failed
C14_Witness ==
    /\ Returned
    /\ analysis.url = "example.com"
    /\ requests = <<[call |-> "GET", to |-> "https://example.com"]>>
    /\ ~SslCheck.result.passed
    /\ NumPassed = 9

\* main(): the screen the next run shows
screen ==
    IF ~api_key_validated THEN "api_key_screen"
    ELSE IF analysis_results = NoResults THEN "analysis_screen"
    ELSE "results_screen"

\* the keys of a stored analysis_results
ResultKeys ==
    {"analysis", "lead_qualification", "replit_prompt", "outreach_email",
     "outreach_dm"}

\* results are stored only under a validated key, and whole
StoredResultsAreWhole ==
    analysis_results # NoResults =>
        /\ api_key_validated
        /\ DOMAIN analysis_results = ResultKeys
        /\ analysis_results.analysis.outcome = "returned"
        /\ \A k \in ResultKeys \ {"analysis"} : Len(analysis_results[k]) > 0

\* a step that clears the stored results (the Reset button) empties
\* current_url, keeps the key, and leads to the analysis screen
ResetKeepsKey ==
    analysis_results # NoResults /\ analysis_results' = NoResults =>
        /\ current_url' = ""
        /\ api_key_validated' = api_key_validated
        /\ openai_api_key' = openai_api_key
        /\ screen' = "analysis_screen"

(* C15: in every reachable session state analysis_results is non-None only *)
(* if api_key_validated is true, and a stored analysis_results holds the   *)
(* analysis together with all four generated strings; Reset sets           *)
(* analysis_results to None and current_url to empty and leaves            *)
(* api_key_validated and the stored key unchanged, so the next screen is   *)
(* the analysis screen, not the key screen.                                *)
C15_SessionInvariants ==
    []StoredResultsAreWhole /\ [][ResetKeepsKey]_vars

\* results stored after a successful analysis: the results screen, with Reset on offer
C15_Witness ==
    /\ screen = "results_screen"
    /\ api_key_validated
    /\ current_url = "example.com/contact"
    /\ DOMAIN analysis_results = ResultKeys
    /\ ENABLED Reset

=============================================================================
